---- MODULE Spec2Model ----
(***************************************************************************)
(* Model of generate_textgrid.py: one run of main() over a delimited file *)
(* of times and optional labels, producing a Praat TextGrid with a single *)
(* point tier or interval tier.                                           *)
(*                                                                         *)
(* Text is a sequence of Unicode code points, so that str.strip, float()  *)
(* and the label escaping are computed character by character.  A time is *)
(* an IEEE-754 double: NaN, an infinity, or sign * m * 2^e with m an odd  *)
(* natural below 2^53 (m = 0, e = 0 for the zeros) and -1074 <= e.  The   *)
(* significand does not fit TLC's integers, so naturals of any size are    *)
(* kept as little-endian limbs in base 2^15; float() and + round to the   *)
(* nearest double, ties to even, as the C library does.                   *)
(* The input is the sequence of rows csv.reader yields (a row is the list *)
(* of its fields; a blank line is the empty row).                         *)
(* The mark/text lines (46, 88) nest backslashes inside an f-string       *)
(* replacement field, which Python accepts from 3.12 on; the model takes  *)
(* that reading: replace backslash by two, then quote by backslash-quote. *)
(* Two things depend on the interpreter that runs the file.  The order    *)
(* sorted() gives to keys that include NaN differs between CPython 3.12   *)
(* and CPython 3.13: the sort step takes either.  The set of decimal      *)
(* digits float() reads is that of Unicode 15, shipped by both.           *)
(* Numbers in the file are kept as values: repr() of a float reads back   *)
(* as the same float.                                                      *)
(***************************************************************************)
EXTENDS Integers, Sequences, FiniteSets

VARIABLES rows,       \* the rows csv.reader yields for args.input
          args,       \* argparse namespace: mode, duration, tail, time_col, label_col
          pc,         \* position of main()
          times,      \* main's `times`  (parse result, rebound sorted at line 145)
          labels,     \* main's `labels` (parse result, rebound sorted at line 146)
          xmin,       \* main's `xmin` (unbound before line 148; 0.0 stands for unbound)
          xmax,       \* main's `xmax` (unbound before line 150/152; 0.0 stands for unbound)
          mode,       \* main's `mode` (unbound before line 154)
          intervals,  \* write_textgrid_interval's local `intervals`
          out,        \* the output file: <<>> while it does not exist, else <<contents>>
          exit_code,  \* process exit status; -1 while running
          stderr,     \* lines printed to standard error
          raw,        \* escaping harness: a label
          esc,        \* escaping harness: the label as written in mark/text
          back        \* escaping harness: the written label read back

vars == <<rows, args, pc, times, labels, xmin, xmax, mode, intervals, out,
          exit_code, stderr, raw, esc, back>>

escVars == <<raw, esc, back>>

----------------------------------------------------------------------------
(* Bounds *)

MaxRows == 3
MaxDuration == 1
MaxLabelLen == 4

----------------------------------------------------------------------------
(* Characters and text helpers *)

\* the ASCII characters from code point 32 to 95, and from 97 to 126
AsciiLow == <<" ", "!", "\"", "#", "$", "%", "&", "'", "(", ")", "*", "+", ",", "-", ".", "/",
              "0", "1", "2", "3", "4", "5", "6", "7", "8", "9", ":", ";", "<", "=", ">", "?",
              "@", "A", "B", "C", "D", "E", "F", "G", "H", "I", "J", "K", "L", "M", "N", "O",
              "P", "Q", "R", "S", "T", "U", "V", "W", "X", "Y", "Z", "[", "\\", "]", "^", "_">>

AsciiHigh == <<"a", "b", "c", "d", "e", "f", "g", "h", "i", "j", "k", "l", "m", "n", "o",
               "p", "q", "r", "s", "t", "u", "v", "w", "x", "y", "z", "{", "|", "}", "~">>

\* ord(c) of one of these characters
Ord(c) ==
    IF \E i \in 1..64 : AsciiLow[i] = c
    THEN 31 + (CHOOSE i \in 1..64 : AsciiLow[i] = c)
    ELSE 96 + (CHOOSE i \in 1..30 : AsciiHigh[i] = c)

\* the code points of a text given character by character
Text(s) == [i \in 1..Len(s) |-> Ord(s[i])]

BS == Ord("\\")
DQ == Ord("\"")
SP == Ord(" ")
Hash == Ord("#")
Plus == Ord("+")
Minus == Ord("-")
Dot == Ord(".")
Underscore == Ord("_")
LetterE == {Ord("e"), Ord("E")}

\* the characters str.isspace() is true of, which str.strip() and float() drop
Whitespace ==
    (9..13) \cup (28..32) \cup {133, 160, 5760} \cup (8192..8202)
    \cup {8232, 8233, 8239, 8287, 12288}

\* the code points of the digit zero in each run of ten Unicode decimal digits
DigitZeros ==
    {48, 1632, 1776, 1984, 2406, 2534, 2662, 2790, 2918, 3046, 3174, 3302, 3430,
     3558, 3664, 3792, 3872, 4160, 4240, 6112, 6160, 6470, 6608, 6784, 6800, 6992,
     7088, 7232, 7248, 42528, 43216, 43264, 43472, 43504, 43600, 44016, 65296,
     66720, 68912, 69734, 69872, 69942, 70096, 70384, 70736, 70864, 71248, 71360,
     71472, 71904, 72016, 72784, 73040, 73120, 73552, 92768, 92864, 93008, 120782,
     120792, 120802, 120812, 120822, 123200, 123632, 124144, 125264, 130032}

\* a Unicode decimal digit: float() reads it as the ASCII digit of its value
IsDigit(c) == \E z \in DigitZeros : z <= c /\ c <= z + 9

DigitVal(c) == c - (CHOOSE z \in DigitZeros : z <= c /\ c <= z + 9)

\* str.lstrip(), str.rstrip(), str.strip(): drop leading and trailing whitespace
LStrip(s) ==
    IF \A i \in 1..Len(s) : s[i] \in Whitespace THEN <<>>
    ELSE SubSeq(s, CHOOSE i \in 1..Len(s) :
                       s[i] \notin Whitespace /\ \A j \in 1..(i - 1) : s[j] \in Whitespace,
                Len(s))

RStrip(s) ==
    IF \A i \in 1..Len(s) : s[i] \in Whitespace THEN <<>>
    ELSE SubSeq(s, 1, CHOOSE i \in 1..Len(s) :
                          s[i] \notin Whitespace /\ \A j \in (i + 1)..Len(s) : s[j] \in Whitespace)

Strip(s) == RStrip(LStrip(s))

----------------------------------------------------------------------------
(* Naturals of any size: little-endian limbs in base 2^15, no leading zero *)
(* limb; zero is the empty sequence.  They carry the exact values inside   *)
(* float() and the float sum.  Limb-wise operations split their operand in *)
(* halves, the carry passing from the first half to the second.            *)

Base == 32768
LimbBits == 15

RECURSIVE Pow2(_)
Pow2(n) == IF n <= 0 THEN 1 ELSE 2 * Pow2(n - 1)

RECURSIVE Pow5(_)
Pow5(n) == IF n <= 0 THEN 1 ELSE 5 * Pow5(n - 1)

\* a without its leading zero limbs
Trim(a) ==
    IF \A i \in 1..Len(a) : a[i] = 0 THEN <<>>
    ELSE SubSeq(a, 1, CHOOSE i \in 1..Len(a) : a[i] # 0 /\ \A j \in (i + 1)..Len(a) : a[j] = 0)

\* a with leading zero limbs up to n limbs
Pad(a, n) == a \o [j \in 1..(n - Len(a)) |-> 0]

\* the limbs of an integer 0 <= i < 2^31
RECURSIVE NatOf(_)
NatOf(i) == IF i = 0 THEN <<>> ELSE <<i % Base>> \o NatOf(i \div Base)

\* the limbs d and the carry c of a * s + carry, for s and carry below the base
RECURSIVE MulLimbs(_, _, _)
MulLimbs(a, s, carry) ==
    IF a = <<>> THEN [d |-> <<>>, c |-> carry]
    ELSE IF Len(a) = 1
    THEN [d |-> <<(a[1] * s + carry) % Base>>, c |-> (a[1] * s + carry) \div Base]
    ELSE LET lo == MulLimbs(SubSeq(a, 1, Len(a) \div 2), s, carry)
             hi == MulLimbs(SubSeq(a, (Len(a) \div 2) + 1, Len(a)), s, lo.c)
         IN [d |-> lo.d \o hi.d, c |-> hi.c]

\* the number with the limbs p.d and, above them, the carry p.c
Joined(p) == Trim(p.d \o <<p.c>>)

\* a * s + carry
MulSmall(a, s, carry) == Joined(MulLimbs(a, s, carry))

Reverse(s) == [i \in 1..Len(s) |-> s[Len(s) + 1 - i]]

\* long division by d below the base, from the highest limb down: the
\* quotient limbs q and the remainder r of the number with remainder r0 < d
\* carried in and the limbs a, highest first
RECURSIVE DivLimbs(_, _, _)
DivLimbs(a, d, r0) ==
    IF a = <<>> THEN [q |-> <<>>, r |-> r0]
    ELSE IF Len(a) = 1
    THEN [q |-> <<(r0 * Base + a[1]) \div d>>, r |-> (r0 * Base + a[1]) % d]
    ELSE LET hi == DivLimbs(SubSeq(a, 1, Len(a) \div 2), d, r0)
             lo == DivLimbs(SubSeq(a, (Len(a) \div 2) + 1, Len(a)), d, hi.r)
         IN [q |-> hi.q \o lo.q, r |-> lo.r]

\* the quotient, lowest limb first, and the remainder of a long division x
Quotient(x) == [q |-> Trim(Reverse(x.q)), r |-> x.r]

\* quotient and remainder of a by d, for d below the base
DivSmall(a, d) == Quotient(DivLimbs(Reverse(a), d, 0))

\* the limbs d and the carry c of a + b + carry, for a and b of one length
RECURSIVE AddLimbs(_, _, _)
AddLimbs(a, b, carry) ==
    IF a = <<>> THEN [d |-> <<>>, c |-> carry]
    ELSE IF Len(a) = 1
    THEN [d |-> <<(a[1] + b[1] + carry) % Base>>, c |-> (a[1] + b[1] + carry) \div Base]
    ELSE LET h == Len(a) \div 2
             lo == AddLimbs(SubSeq(a, 1, h), SubSeq(b, 1, h), carry)
             hi == AddLimbs(SubSeq(a, h + 1, Len(a)), SubSeq(b, h + 1, Len(a)), lo.c)
         IN [d |-> lo.d \o hi.d, c |-> hi.c]

Longer(a, b) == IF Len(a) > Len(b) THEN Len(a) ELSE Len(b)

\* a + b
NatAdd(a, b) == Joined(AddLimbs(Pad(a, Longer(a, b)), Pad(b, Longer(a, b)), 0))

\* the limbs d and the borrow c of a - b - borrow, for a and b of one length
RECURSIVE SubLimbs(_, _, _)
SubLimbs(a, b, borrow) ==
    IF a = <<>> THEN [d |-> <<>>, c |-> borrow]
    ELSE IF Len(a) = 1
    THEN [d |-> <<(a[1] - b[1] - borrow + Base) % Base>>,
          c |-> IF a[1] - b[1] - borrow < 0 THEN 1 ELSE 0]
    ELSE LET h == Len(a) \div 2
             lo == SubLimbs(SubSeq(a, 1, h), SubSeq(b, 1, h), borrow)
             hi == SubLimbs(SubSeq(a, h + 1, Len(a)), SubSeq(b, h + 1, Len(a)), lo.c)
         IN [d |-> lo.d \o hi.d, c |-> hi.c]

\* a - b, for a >= b
NatSub(a, b) == Trim(SubLimbs(a, Pad(b, Len(a)), 0).d)

\* a < b
NatLt(a, b) ==
    IF Len(a) # Len(b) THEN Len(a) < Len(b)
    ELSE \E i \in 1..Len(a) : a[i] < b[i] /\ \A j \in (i + 1)..Len(a) : a[j] = b[j]

\* number of bits of a limb
RECURSIVE LimbLen(_)
LimbLen(x) == IF x = 0 THEN 0 ELSE 1 + LimbLen(x \div 2)

\* number of bits of a: 2^(BitLen(a) - 1) <= a < 2^BitLen(a) for a > 0
BitLen(a) == IF a = <<>> THEN 0 ELSE LimbBits * (Len(a) - 1) + LimbLen(a[Len(a)])

\* bit i of a (bit 0 is the lowest)
Bit(a, i) ==
    IF i \div LimbBits >= Len(a) THEN 0
    ELSE (a[(i \div LimbBits) + 1] \div Pow2(i % LimbBits)) % 2

\* the k lowest bits of a are zero
LowBitsZero(a, k) ==
    /\ \A j \in 1..(k \div LimbBits) : j > Len(a) \/ a[j] = 0
    /\ (k \div LimbBits) + 1 > Len(a) \/ a[(k \div LimbBits) + 1] % Pow2(k % LimbBits) = 0

\* a * 2^k
Shl(a, k) ==
    IF a = <<>> THEN <<>>
    ELSE [j \in 1..(k \div LimbBits) |-> 0] \o MulSmall(a, Pow2(k % LimbBits), 0)

\* floor(a / 2^k)
Shr(a, k) ==
    IF k \div LimbBits >= Len(a) THEN <<>>
    ELSE DivSmall(SubSeq(a, (k \div LimbBits) + 1, Len(a)), Pow2(k % LimbBits)).q

\* number of zero bits below the lowest one bit of a > 0
TrailingZeros(a) ==
    CHOOSE i \in 0..(BitLen(a) - 1) : Bit(a, i) = 1 /\ LowBitsZero(a, i)

\* a * 5^k
RECURSIVE MulPow5(_, _)
MulPow5(a, k) ==
    IF a = <<>> THEN <<>>
    ELSE IF k <= 6 THEN MulSmall(a, Pow5(k), 0)
    ELSE MulPow5(MulPow5(a, k \div 2), k - (k \div 2))

\* the quotient of a division x, and whether it left no remainder
Exactly(x) == [q |-> x.q, exact |-> x.r = 0]

\* floor(a / 5^k), and whether the division is exact
RECURSIVE DivPow5(_, _)
DivPow5(a, k) ==
    IF a = <<>> THEN [q |-> <<>>, exact |-> TRUE]
    ELSE IF k <= 6 THEN Exactly(DivSmall(a, Pow5(k)))
    ELSE LET x == DivPow5(a, k \div 2)
             y == DivPow5(x.q, k - (k \div 2))
         IN [q |-> y.q, exact |-> x.exact /\ y.exact]

\* the number written by at most nine decimal digit values
RECURSIVE DigitsVal(_)
DigitsVal(ds) == IF ds = <<>> THEN 0
                 ELSE 10 * DigitsVal(SubSeq(ds, 1, Len(ds) - 1)) + ds[Len(ds)]

\* the number written by a sequence of decimal digit values: the first half
\* times 10^k, plus the k digits of the second half
RECURSIVE NatOfDigits(_)
NatOfDigits(ds) ==
    IF Len(ds) <= 9 THEN NatOf(DigitsVal(ds))
    ELSE LET h == Len(ds) \div 2
             k == Len(ds) - h
         IN NatAdd(Shl(MulPow5(NatOfDigits(SubSeq(ds, 1, h)), k), k),
                   NatOfDigits(SubSeq(ds, h + 1, Len(ds))))

----------------------------------------------------------------------------
(* Float values and their arithmetic *)

NaN == [k |-> "nan", neg |-> FALSE, m |-> <<>>, e |-> 0]
Inf(neg) == [k |-> "inf", neg |-> neg, m |-> <<>>, e |-> 0]
Fin(neg, m, e) == [k |-> "fin", neg |-> neg, m |-> m, e |-> e]
Zero == Fin(FALSE, <<>>, 0)

IsNaN(a) == a.k = "nan"

\* exponent of the smallest denormal, bits of a significand, and the power
\* of two no finite double reaches
MinExp == 0 - 1074
Precision == 53
MaxTop == 1024

\* the double sign * m * 2^e, for m > 0 with z trailing zero bits
OddPart(neg, m, e, z) == Fin(neg, Shr(m, z), e + z)

\* the double sign * m * 2^e, its significand made odd
Norm(neg, m, e) ==
    IF m = <<>> THEN Fin(neg, <<>>, 0) ELSE OddPart(neg, m, e, TrailingZeros(m))

\* the double sign * m * 2^e, an infinity when it is 2^1024 or more
Finite(neg, m, e) == IF BitLen(m) + e > MaxTop THEN Inf(neg) ELSE Norm(neg, m, e)

\* the exponent of the last bit a double near n * 2^e keeps: 53 bits from
\* the top, but not below the smallest denormal
Quantum(n, e) ==
    IF BitLen(n) + e - Precision > MinExp THEN BitLen(n) + e - Precision ELSE MinExp

\* round to nearest, ties to even: dropping the t lowest bits of n (and the
\* fraction below n when `inexact`) rounds up when the highest dropped bit
\* is set and either something lower is set or the last kept bit is set
RoundsUp(n, t, inexact) ==
    /\ Bit(n, t - 1) = 1
    /\ inexact \/ ~LowBitsZero(n, t - 1) \/ Bit(n, t) = 1

Rounded(n, t, inexact) ==
    IF RoundsUp(n, t, inexact) THEN NatAdd(Shr(n, t), <<1>>) ELSE Shr(n, t)

\* the double nearest to sign * (n + f) * 2^e that is a multiple of 2^q
RoundAt(neg, n, e, inexact, q) ==
    IF q <= e THEN Finite(neg, n, e) ELSE Finite(neg, Rounded(n, q - e, inexact), q)

\* the double nearest to sign * (n + f) * 2^e, where 0 <= f < 1 and f > 0
\* exactly when `inexact` (then n has more bits than a significand): round to
\* 53 bits, or to a multiple of the smallest denormal, ties to even; a value
\* that rounds to 2^1024 or more is an infinity
ToValue(neg, n, e, inexact) ==
    IF n = <<>> THEN Fin(neg, <<>>, 0) ELSE RoundAt(neg, n, e, inexact, Quantum(n, e))

\* float(i) for an integer i
IntV(i) == IF i < 0 THEN ToValue(TRUE, NatOf(0 - i), 0, FALSE)
           ELSE ToValue(FALSE, NatOf(i), 0, FALSE)

Min(x, y) == IF x < y THEN x ELSE y

\* |a| < |b| for finite a, b
MagLt(a, b) ==
    IF b.m = <<>> THEN FALSE
    ELSE IF a.m = <<>> THEN TRUE
    ELSE IF BitLen(a.m) + a.e # BitLen(b.m) + b.e THEN BitLen(a.m) + a.e < BitLen(b.m) + b.e
    ELSE NatLt(Shl(a.m, a.e - Min(a.e, b.e)), Shl(b.m, b.e - Min(a.e, b.e)))

Negative(a) == a.neg /\ (a.k = "inf" \/ a.m # <<>>)

\* a < b for values that are not NaN
LtNum(a, b) ==
    IF a.k = "inf" THEN a.neg /\ ~(b.k = "inf" /\ b.neg)
    ELSE IF b.k = "inf" THEN ~b.neg
    ELSE IF Negative(a) THEN (IF Negative(b) THEN MagLt(b, a) ELSE TRUE)
    ELSE IF Negative(b) THEN FALSE
    ELSE MagLt(a, b)

\* the float comparisons a < b, a > b, a <= b, a == b: all false on NaN
Lt(a, b) == ~IsNaN(a) /\ ~IsNaN(b) /\ LtNum(a, b)
Gt(a, b) == Lt(b, a)
Le(a, b) == ~IsNaN(a) /\ ~IsNaN(b) /\ ~LtNum(b, a)
Eq(a, b) == ~IsNaN(a) /\ ~IsNaN(b) /\ ~LtNum(a, b) /\ ~LtNum(b, a)

\* the rounded sum of the finite non-zero a and b, whose magnitudes are
\* x * 2^e and y * 2^e
AddAligned(a, b, x, y, e) ==
    IF a.neg = b.neg THEN ToValue(a.neg, NatAdd(x, y), e, FALSE)
    ELSE IF x = y THEN Zero
    ELSE IF NatLt(x, y) THEN ToValue(b.neg, NatSub(y, x), e, FALSE)
    ELSE ToValue(a.neg, NatSub(x, y), e, FALSE)

AddFinite(a, b, e) == AddAligned(a, b, Shl(a.m, a.e - e), Shl(b.m, b.e - e), e)

\* the float sum a + b: the exact sum, rounded
Add(a, b) ==
    IF IsNaN(a) \/ IsNaN(b) THEN NaN
    ELSE IF a.k = "inf" THEN (IF b.k = "inf" /\ b.neg # a.neg THEN NaN ELSE a)
    ELSE IF b.k = "inf" THEN b
    ELSE IF a.m = <<>> /\ b.m = <<>> THEN Fin(a.neg /\ b.neg, <<>>, 0)
    ELSE IF a.m = <<>> THEN b
    ELSE IF b.m = <<>> THEN a
    ELSE AddFinite(a, b, Min(a.e, b.e))

----------------------------------------------------------------------------
(* float(text) *)

\* ASCII lower case
Lower(c) == IF 65 <= c /\ c <= 90 THEN c + 32 ELSE c

\* digit (["_"] digit)*
DigitPart(s) ==
    /\ s # <<>>
    /\ IsDigit(s[1])
    /\ IsDigit(s[Len(s)])
    /\ \A i \in 1..Len(s) : IsDigit(s[i]) \/ s[i] = Underscore
    /\ \A i \in 1..(Len(s) - 1) : ~(s[i] = Underscore /\ s[i + 1] = Underscore)

DigitValues(ds) == [i \in 1..Len(ds) |-> DigitVal(ds[i])]

\* the digit values of a digit part
Digits(s) == DigitValues(SelectSeq(s, LAMBDA c : c # Underscore))

DropLeadingZeros(ds) ==
    IF \A i \in 1..Len(ds) : ds[i] = 0 THEN <<>>
    ELSE SubSeq(ds, CHOOSE i \in 1..Len(ds) : ds[i] # 0 /\ \A j \in 1..(i - 1) : ds[j] = 0,
                Len(ds))

DropTrailingZeros(ds) ==
    IF \A i \in 1..Len(ds) : ds[i] = 0 THEN <<>>
    ELSE SubSeq(ds, 1, CHOOSE i \in 1..Len(ds) :
                           ds[i] # 0 /\ \A j \in (i + 1)..Len(ds) : ds[j] = 0)

\* index of the first character of s that is in cs, 0 when there is none
FirstOf(s, cs) ==
    IF \E i \in 1..Len(s) : s[i] \in cs
    THEN CHOOSE i \in 1..Len(s) : s[i] \in cs /\ \A j \in 1..(i - 1) : s[j] \notin cs
    ELSE 0

\* bits to scale d by before dividing by 5^k, for a quotient of 57 bits or more
Scale(d, k) == IF 57 + 3 * k > BitLen(d) THEN 57 + 3 * k - BitLen(d) ELSE 0

\* the double nearest to sign * (quot.q + f) * 2^e, with f > 0 when the
\* division left a remainder
OfQuotient(neg, quot, e) == ToValue(neg, quot.q, e, ~quot.exact)

\* the double nearest to sign * d / 10^k, from floor(d * 2^s / 5^k)
NearestFraction(neg, d, k, s) == OfQuotient(neg, DivPow5(Shl(d, s), k), 0 - s - k)

NearestScaled(neg, d, k) == NearestFraction(neg, d, k, Scale(d, k))

\* the double nearest to sign * d * 10^e, for the digit values ds of d, which
\* neither start nor end with a zero
Nearest(neg, ds, e) ==
    IF ds = <<>> THEN Fin(neg, <<>>, 0)
    ELSE IF Len(ds) + e >= 310 THEN Inf(neg)
    ELSE IF Len(ds) + e <= 0 - 324 THEN Fin(neg, <<>>, 0)
    ELSE IF e >= 0 THEN ToValue(neg, MulPow5(NatOfDigits(ds), e), e, FALSE)
    ELSE NearestScaled(neg, NatOfDigits(ds), 0 - e)

\* the text before and after the first character of s that is in cs
Before(s, cs) == IF FirstOf(s, cs) = 0 THEN s ELSE SubSeq(s, 1, FirstOf(s, cs) - 1)
After(s, cs) == IF FirstOf(s, cs) = 0 THEN <<>> ELSE SubSeq(s, FirstOf(s, cs) + 1, Len(s))

Signed(t) == t # <<>> /\ Head(t) \in {Plus, Minus}
IsNegative(t) == Signed(t) /\ Head(t) = Minus
Unsigned(t) == IF Signed(t) THEN Tail(t) ELSE t

\* the exponent written by the digit values ds, at most nine
SignedExp(ds, neg) == IF neg THEN 0 - DigitsVal(ds) ELSE DigitsVal(ds)

\* the value of the significant digits `lead` (no leading zero), the last
\* fracLen of the digits read being after the point, times ten to the exponent
DecimalValue(neg, lead, fracLen, expDigits, expNeg) ==
    IF lead = <<>> THEN <<Fin(neg, <<>>, 0)>>
    ELSE IF Len(expDigits) > 9 THEN <<IF expNeg THEN Fin(neg, <<>>, 0) ELSE Inf(neg)>>
    ELSE <<Nearest(neg, DropTrailingZeros(lead),
                   SignedExp(expDigits, expNeg) - fracLen
                   + (Len(lead) - Len(DropTrailingZeros(lead))))>>

\* digits before or after the point, or both
MantissaOk(ip, fp, hasDot) ==
    \/ DigitPart(ip) /\ (fp = <<>> \/ DigitPart(fp))
    \/ ip = <<>> /\ hasDot /\ DigitPart(fp)

\* the value of integer part ip, fraction part fp and exponent digits expPart
DecimalFields(neg, ip, fp, hasDot, expPart, expNeg, hasExp) ==
    IF ~(MantissaOk(ip, fp, hasDot) /\ (~hasExp \/ DigitPart(expPart))) THEN <<>>
    ELSE DecimalValue(neg, DropLeadingZeros(Digits(ip) \o Digits(fp)), Len(Digits(fp)),
                      DropLeadingZeros(Digits(expPart)), expNeg)

\* the value of mantissa mant and exponent expo
DecimalParts(neg, mant, expo, hasExp) ==
    DecimalFields(neg, Before(mant, {Dot}), After(mant, {Dot}), FirstOf(mant, {Dot}) # 0,
                  Unsigned(expo), IsNegative(expo), hasExp)

\* [digits] ["." [digits]] [("e"|"E") [sign] digits], with a digit in the mantissa
Decimal(neg, body) ==
    DecimalParts(neg, Before(body, LetterE), After(body, LetterE), FirstOf(body, LetterE) # 0)

InfText == Text(<<"i", "n", "f">>)
InfinityText == Text(<<"i", "n", "f", "i", "n", "i", "t", "y">>)
NanText == Text(<<"n", "a", "n">>)

LowerText(s) == [i \in 1..Len(s) |-> Lower(s[i])]

\* the value of the unsigned text body, low being body in lower case
FloatBody(neg, body, low) ==
    IF low = InfText \/ low = InfinityText THEN <<Inf(neg)>>
    ELSE IF low = NanText THEN <<NaN>>
    ELSE Decimal(neg, body)

FloatStripped(t) == FloatBody(IsNegative(t), Unsigned(t), LowerText(Unsigned(t)))

\* float(text): <<v>> when the text is a float literal, <<>> when float() raises
\* ValueError
Float(s) == FloatStripped(Strip(s))

----------------------------------------------------------------------------
(* Label escaping *)

\* str.replace(c, r) for a one-character c
RECURSIVE Replace(_, _, _)
Replace(s, c, r) ==
    IF s = <<>> THEN <<>>
    ELSE IF Len(s) = 1 THEN (IF s[1] = c THEN r ELSE s)
    ELSE Replace(SubSeq(s, 1, Len(s) \div 2), c, r)
         \o Replace(SubSeq(s, (Len(s) \div 2) + 1, Len(s)), c, r)

EscapeQuoteFirst(label) == Replace(Replace(label, DQ, <<BS, DQ>>), BS, <<BS, BS>>)

\* label.replace('\\', '\\\\').replace('"', '\\"')
Escape(label) == Replace(Replace(label, BS, <<BS, BS>>), DQ, <<BS, DQ>>)

\* the inverse transform: a backslash followed by a character yields that character
RECURSIVE Unescape(_)
Unescape(s) ==
    IF s = <<>> THEN <<>>
    ELSE IF Head(s) = BS /\ Len(s) >= 2 THEN <<s[2]>> \o Unescape(SubSeq(s, 3, Len(s)))
    ELSE <<Head(s)>> \o Unescape(Tail(s))

----------------------------------------------------------------------------
(* parse_tsv *)

\* the position of row[c] in a list of n items, counted from 1; 0 when
\* row[c] raises IndexError.  A negative c counts from the end.
Index(n, c) ==
    IF 0 <= c /\ c < n THEN c + 1
    ELSE IF c < 0 /\ 0 - c <= n THEN n + c + 1
    ELSE 0

\* str.startswith('#')
StartsWithHash(f) == f # <<>> /\ Head(f) = Hash

\* row[0].strip().startswith('#')
IsComment(row) == StartsWithHash(Strip(row[1]))

\* try: float(row[time_col].strip())  -- <<>> on IndexError or ValueError
RowTime(row, time_col) ==
    IF Index(Len(row), time_col) = 0 THEN <<>>
    ELSE Float(Strip(row[Index(Len(row), time_col)]))

\* the loop body's `continue` conditions, for a row whose time field reads as t
Skipped(row, t) ==
    \/ row = <<>>
    \/ IsComment(row)
    \/ t = <<>>

RowSkipped(row, time_col) == Skipped(row, RowTime(row, time_col))

\* row[label_col] at line 111 raises IndexError: the test len(row) > label_col
\* passes, label_col is below -len(row), and the row was not skipped before
RowRaises(row, time_col, label_col) ==
    /\ Len(row) > label_col
    /\ Index(Len(row), label_col) = 0
    /\ ~RowSkipped(row, time_col)

\* label = row[label_col].strip() if len(row) > label_col else ""
RowLabel(row, label_col) ==
    IF Len(row) > label_col THEN Strip(row[Index(Len(row), label_col)]) ELSE <<>>

\* parse_tsv does not return: some row raises at line 111
ParseRaises(rs, time_col, label_col) ==
    \E i \in 1..Len(rs) : RowRaises(rs[i], time_col, label_col)

\* what one row whose time field reads as t appends to the lists
Parsed(row, t, label_col) ==
    IF Skipped(row, t) THEN <<>>
    ELSE <<[t |-> t[1], label |-> RowLabel(row, label_col)]>>

\* parse_tsv: the (time, label) pairs appended, in file order, up to the end
\* of the file or to the row that raises
RECURSIVE ParseRows(_, _, _)
ParseRows(rs, time_col, label_col) ==
    IF rs = <<>> THEN <<>>
    ELSE IF RowRaises(Head(rs), time_col, label_col) THEN <<>>
    ELSE Parsed(Head(rs), RowTime(Head(rs), time_col), label_col)
         \o ParseRows(Tail(rs), time_col, label_col)

----------------------------------------------------------------------------
(* main: sorting, bounds, mode *)

\* zip(times, labels), and the two lists of a list of pairs
Zip(ts, ls) == [i \in 1..Len(ts) |-> [t |-> ts[i], label |-> ls[i]]]
TimesOf(ps) == [i \in 1..Len(ps) |-> ps[i].t]
LabelsOf(ps) == [i \in 1..Len(ps) |-> ps[i].label]

\* the interpreters whose list.sort differ (all later ones sort as 3.13)
Interpreters == {"cpython312", "cpython313"}

\* the end of the run that starts at ps[1] and holds ps[1..n]: it goes on
\* while "the next key is less than this one" is `descending`
RECURSIVE RunEnd(_, _, _)
RunEnd(ps, n, descending) ==
    IF n = Len(ps) THEN n
    ELSE IF Lt(ps[n + 1].t, ps[n].t) = descending THEN RunEnd(ps, n + 1, descending)
    ELSE n

\* ps with its first n items reversed
ReversePrefix(ps, n) == Reverse(SubSeq(ps, 1, n)) \o SubSeq(ps, n + 1, Len(ps))

\* the list with its first n items, a run, made ascending, and n
AscendingRun(ps, n, descending) ==
    [l |-> IF descending THEN ReversePrefix(ps, n) ELSE ps, n |-> n]

\* count_run of CPython 3.12: the list with its initial run made ascending
\* and the length of that run.  The run is strictly descending when the
\* second key is less than the first, else non-descending.
CountRun312(ps) ==
    IF Len(ps) < 2 THEN [l |-> ps, n |-> Len(ps)]
    ELSE AscendingRun(ps, RunEnd(ps, 2, Lt(ps[2].t, ps[1].t)), Lt(ps[2].t, ps[1].t))

\* REVERSE_LAST_NEQ of CPython 3.13: the last neq + 1 of the first n items,
\* which are equal, are reversed
ReverseLastEqual(l, n, neq) ==
    IF neq = 0 THEN l
    ELSE SubSeq(l, 1, n - neq - 1) \o Reverse(SubSeq(l, n - neq, n)) \o SubSeq(l, n + 1, Len(l))

\* the descending part of count_run of CPython 3.13: l[1..n] is a
\* non-increasing run whose last neq + 1 items are equal
RECURSIVE Descend(_, _, _)
Descend(l, n, neq) ==
    IF n = Len(l) THEN [l |-> ReverseLastEqual(l, n, neq), n |-> n]
    ELSE IF Lt(l[n + 1].t, l[n].t) THEN Descend(ReverseLastEqual(l, n, neq), n + 1, 0)
    ELSE IF Lt(l[n].t, l[n + 1].t) THEN [l |-> ReverseLastEqual(l, n, neq), n |-> n]
    ELSE Descend(l, n + 1, neq + 1)

\* l with its first n items, an ascending run, extended by the items that follow in order
Extended(l, n) == [l |-> l, n |-> RunEnd(l, n, FALSE)]

\* the non-increasing run d reversed, then extended
ReversedRun(d) == Extended(ReversePrefix(d.l, d.n), d.n)

\* count_run of CPython 3.13, after an initial non-descending run of n items
\* that does not reach the end of the list
CountRunFrom(ps, n) ==
    IF n > 1 /\ Lt(ps[1].t, ps[n].t) THEN [l |-> ps, n |-> n]
    ELSE ReversedRun(Descend(IF n > 1 THEN ReversePrefix(ps, n) ELSE ps, n + 1, 0))

\* count_run of CPython 3.13: the list with its initial run made ascending
\* and the length of that run.  An ascending run ends the search unless all
\* its keys are equal; a non-increasing run is reversed, equal keys keeping
\* their order, and then extended by the ascending run that follows.
CountRun313(ps) ==
    IF ps = <<>> \/ RunEnd(ps, 1, FALSE) = Len(ps) THEN [l |-> ps, n |-> Len(ps)]
    ELSE CountRunFrom(ps, RunEnd(ps, 1, FALSE))

\* binarysort's search: the 0-based position for pivot in the sorted prefix
RECURSIVE BinPos(_, _, _, _)
BinPos(prefix, pivot, l, r) ==
    IF l >= r THEN l
    ELSE LET p == l + ((r - l) \div 2) IN
         IF Lt(pivot.t, prefix[p + 1].t) THEN BinPos(prefix, pivot, l, p)
         ELSE BinPos(prefix, pivot, p + 1, r)

InsertAt(prefix, pos, x) ==
    SubSeq(prefix, 1, pos) \o <<x>> \o SubSeq(prefix, pos + 1, Len(prefix))

\* binarysort: insert the remaining elements one by one
RECURSIVE BinarySort(_, _)
BinarySort(prefix, rest) ==
    IF rest = <<>> THEN prefix
    ELSE BinarySort(InsertAt(prefix, BinPos(prefix, Head(rest), 0, Len(prefix)), Head(rest)),
                    Tail(rest))

\* binarysort started on the list run.l, whose first run.n items are in order
SortFrom(run) == BinarySort(SubSeq(run.l, 1, run.n), SubSeq(run.l, run.n + 1, Len(run.l)))

\* sorted(pairs, key=lambda x: x[0]) for fewer than 64 pairs, under one
\* interpreter: the initial run extended by binary insertion, comparing keys
\* with < only.  Ascending and stable when no key is NaN, and then the same
\* under both interpreters.
Sorted(ps, interpreter) ==
    SortFrom(IF interpreter = "cpython312" THEN CountRun312(ps) ELSE CountRun313(ps))

\* max(times), for a non-empty list: keep the first item, replace it by each
\* later item that is > it
RECURSIVE MaxFrom(_, _)
MaxFrom(cur, rest) ==
    IF rest = <<>> THEN cur
    ELSE MaxFrom(IF Gt(Head(rest), cur) THEN Head(rest) ELSE cur, Tail(rest))

Max(ts) == MaxFrom(ts[1], Tail(ts))

None == <<>>

XmaxFirstTime(ts, duration, tail) ==
    IF duration # None THEN duration[1] ELSE Add(ts[1], tail)

\* xmax = args.duration if args.duration is not None else max(times) + args.tail
XmaxOf(ts, duration, tail) ==
    IF duration # None THEN duration[1] ELSE Add(Max(ts), tail)

\* any(lbl for lbl in labels)
AnyLabels(ls) == \E i \in 1..Len(ls) : ls[i] # <<>>

ResolvedModeAllLabels(m, ls) ==
    IF m = "auto"
    THEN IF ls # <<>> /\ \A i \in 1..Len(ls) : ls[i] # <<>> THEN "point" ELSE "interval"
    ELSE m

\* mode = args.mode; if mode == 'auto': mode = 'point' if any_labels else 'interval'
ResolvedMode(m, ls) ==
    IF m = "auto" THEN IF AnyLabels(ls) THEN "point" ELSE "interval" ELSE m

----------------------------------------------------------------------------
(* write_textgrid_interval: interval construction *)

Interval(s, e, l) == [start |-> s, end |-> e, label |-> l]

\* for i in range(len(boundaries) - 1): intervals.append((start, end, label))
Between(boundaries, ls) ==
    [i \in 1..(Len(boundaries) - 1) |->
        Interval(boundaries[i], boundaries[i + 1],
                 IF i - 1 < Len(ls) THEN ls[i] ELSE <<>>)]

BuildIntervalsLastLabel(boundaries, ls, lo, hi) ==
    IF Len(boundaries) = 0 THEN <<Interval(lo, hi, <<>>)>>
    ELSE (IF Lt(lo, boundaries[1]) THEN <<Interval(lo, boundaries[1], <<>>)>> ELSE <<>>)
         \o [i \in 1..(Len(boundaries) - 1) |->
                Interval(boundaries[i], boundaries[i + 1],
                         IF Len(ls) = 0 THEN <<>>
                         ELSE ls[IF i < Len(ls) THEN i ELSE Len(ls)])]
         \o (IF Lt(boundaries[Len(boundaries)], hi)
             THEN <<Interval(boundaries[Len(boundaries)], hi,
                             IF Len(ls) = 0 THEN <<>> ELSE ls[Len(ls)])>>
             ELSE <<>>)

\* the `intervals` list of write_textgrid_interval
BuildIntervals(boundaries, ls, lo, hi) ==
    IF Len(boundaries) = 0 THEN <<Interval(lo, hi, <<>>)>>
    ELSE (IF Lt(lo, boundaries[1]) THEN <<Interval(lo, boundaries[1], <<>>)>> ELSE <<>>)
         \o Between(boundaries, ls)
         \o (IF Lt(boundaries[Len(boundaries)], hi)
             THEN <<Interval(boundaries[Len(boundaries)], hi,
                             IF Len(ls) >= Len(boundaries) THEN ls[Len(boundaries)] ELSE <<>>)>>
             ELSE <<>>)

----------------------------------------------------------------------------
(* Serialized files *)

TierName == Text(<<"e", "v", "e", "n", "t", "s">>)

\* what write_textgrid_point writes
PointFile(times_labels, lo, hi, name) ==
    [class |-> "TextTier", name |-> name, xmin |-> lo, xmax |-> hi,
     size |-> Len(times_labels),
     entries |-> [i \in 1..Len(times_labels) |->
                    [index |-> i, number |-> times_labels[i].t,
                     mark |-> Escape(times_labels[i].label)]]]

\* what write_textgrid_interval writes
IntervalFile(ivs, lo, hi, name) ==
    [class |-> "IntervalTier", name |-> name, xmin |-> lo, xmax |-> hi,
     size |-> Len(ivs),
     entries |-> [i \in 1..Len(ivs) |->
                    [index |-> i, xmin |-> ivs[i].start, xmax |-> ivs[i].end,
                     text |-> Escape(ivs[i].label)]]]

----------------------------------------------------------------------------
(* Inputs *)

TAB == 9
NBSP == 160
FullwidthTwo == 65298

RowBlank     == <<>>
RowComment   == << <<TAB, Hash>>, Text(<<"1">>) >>
RowTimeOnly  == << Text(<<"2", ".", "0">>) >>
RowPadded    == << <<SP, FullwidthTwo, NBSP>>, <<SP, DQ, BS, TAB>> >>
RowMalformed == << Text(<<"a">>), Text(<<"0", ".", "5">>) >>
RowNaN       == << Text(<<"n", "a", "n">>), Text(<<"0">>) >>
RowNegative  == << Text(<<"-", "1">>), Text(<<"b">>) >>
RowWord      == << Text(<<"1", ".", "2">>), Text(<<"w", "o", "r", "d", "2">>) >>

RowSet == {RowBlank, RowComment, RowTimeOnly, RowPadded, RowMalformed, RowNaN,
           RowNegative, RowWord}

Files == UNION {[1..k -> RowSet] : k \in 0..MaxRows}

Modes == {"auto", "point", "interval"}
Durations == {None} \cup {<<IntV(d)>> : d \in (0 - 1)..MaxDuration}
Tails == {IntV(0), IntV(1)}
ColPairs == {<<0, 1>>, <<1, 0>>, <<0, 0 - 2>>}

Args == {[mode |-> m, duration |-> d, tail |-> tl, time_col |-> c[1], label_col |-> c[2]] :
            m \in Modes, d \in Durations, tl \in Tails, c \in ColPairs}

LabelAlphabet == {BS, DQ, Ord("a")}
Labels == UNION {[1..k -> LabelAlphabet] : k \in 0..MaxLabelLen}

----------------------------------------------------------------------------
(* One run of main() *)

Init ==
    /\ rows \in Files
    /\ args \in Args
    /\ pc = "start"
    /\ times = <<>>
    /\ labels = <<>>
    /\ xmin = Zero
    /\ xmax = Zero
    /\ mode = "unbound"
    /\ intervals = <<>>
    /\ out = <<>>
    /\ exit_code = 0 - 1
    /\ stderr = <<>>
    /\ raw = <<>>
    /\ esc = <<>>
    /\ back = <<>>

\* times, labels = parse_tsv(args.input, ...)
ParseInput ==
    /\ pc = "start"
    /\ ~ParseRaises(rows, args.time_col, args.label_col)
    /\ \E ps \in {ParseRows(rows, args.time_col, args.label_col)} :
         /\ times' = TimesOf(ps)
         /\ labels' = LabelsOf(ps)
    /\ pc' = "parsed"
    /\ UNCHANGED <<rows, args, xmin, xmax, mode, intervals, out, exit_code, stderr>>
    /\ UNCHANGED escVars

\* parse_tsv raises IndexError at line 111; nothing catches it: the
\* interpreter prints the traceback and exits with status 1
ParseInputRaises ==
    /\ pc = "start"
    /\ ParseRaises(rows, args.time_col, args.label_col)
    /\ stderr' = Append(stderr, "IndexError: list index out of range")
    /\ exit_code' = 1
    /\ pc' = "raised"
    /\ UNCHANGED <<rows, args, times, labels, xmin, xmax, mode, intervals, out>>
    /\ UNCHANGED escVars

ExitEmptyAfterWriting ==
    /\ pc = "parsed"
    /\ Len(times) = 0
    /\ out' = <<PointFile(<<>>, Zero, Zero, TierName)>>
    /\ stderr' = Append(stderr, "No valid time entries found in input.")
    /\ exit_code' = 1
    /\ pc' = "done"
    /\ UNCHANGED <<rows, args, times, labels, xmin, xmax, mode, intervals>>
    /\ UNCHANGED escVars

\* if len(times) == 0: print(..., file=sys.stderr); sys.exit(1)
ExitEmpty ==
    /\ pc = "parsed"
    /\ Len(times) = 0
    /\ stderr' = Append(stderr, "No valid time entries found in input.")
    /\ exit_code' = 1
    /\ pc' = "done"
    /\ UNCHANGED <<rows, args, times, labels, xmin, xmax, mode, intervals, out>>
    /\ UNCHANGED escVars

\* combined = sorted(zip(times, labels), key=...); times = ...; labels = ...
\* under either interpreter
SortEntries ==
    /\ pc = "parsed"
    /\ Len(times) # 0
    /\ \E interpreter \in Interpreters :
         \E combined \in {Sorted(Zip(times, labels), interpreter)} :
            /\ times' = TimesOf(combined)
            /\ labels' = LabelsOf(combined)
    /\ pc' = "sorted"
    /\ UNCHANGED <<rows, args, xmin, xmax, mode, intervals, out, exit_code, stderr>>
    /\ UNCHANGED escVars

\* xmin = 0.0; xmax = args.duration or max(times) + args.tail
ComputeBounds ==
    /\ pc = "sorted"
    /\ xmin' = Zero
    /\ xmax' = XmaxOf(times, args.duration, args.tail)
    /\ pc' = "bounds"
    /\ UNCHANGED <<rows, args, times, labels, mode, intervals, out, exit_code, stderr>>
    /\ UNCHANGED escVars

\* mode = args.mode, resolved when 'auto'
ResolveMode ==
    /\ pc = "bounds"
    /\ mode' = ResolvedMode(args.mode, labels)
    /\ pc' = "write"
    /\ UNCHANGED <<rows, args, times, labels, xmin, xmax, intervals, out, exit_code, stderr>>
    /\ UNCHANGED escVars

\* write_textgrid_point(times_labels, xmin, xmax, args.tier_name, out_path)
WritePoint ==
    /\ pc = "write"
    /\ mode = "point"
    /\ out' = <<PointFile(Zip(times, labels), xmin, xmax, TierName)>>
    /\ exit_code' = 0
    /\ pc' = "done"
    /\ UNCHANGED <<rows, args, times, labels, xmin, xmax, mode, intervals, stderr>>
    /\ UNCHANGED escVars

\* write_textgrid_interval(boundaries, labels, xmin, xmax, args.tier_name, out_path)
WriteInterval ==
    /\ pc = "write"
    /\ mode # "point"
    /\ intervals' = BuildIntervals(times, labels, xmin, xmax)
    /\ out' = <<IntervalFile(intervals', xmin, xmax, TierName)>>
    /\ exit_code' = 0
    /\ pc' = "done"
    /\ UNCHANGED <<rows, args, times, labels, xmin, xmax, mode, stderr>>
    /\ UNCHANGED escVars

Next ==
    \/ ParseInput
    \/ ParseInputRaises
    \/ ExitEmpty
    \/ SortEntries
    \/ ComputeBounds
    \/ ResolveMode
    \/ WritePoint
    \/ WriteInterval

Spec == Init /\ [][Next]_vars

----------------------------------------------------------------------------
(* Label escaping on its own: every label over the alphabet is escaped as in *)
(* the mark/text lines, then read back.                                      *)

EscInit ==
    /\ rows = <<>>
    /\ args = [mode |-> "auto", duration |-> None, tail |-> IntV(1), time_col |-> 0, label_col |-> 1]
    /\ pc = "escape"
    /\ times = <<>>
    /\ labels = <<>>
    /\ xmin = Zero
    /\ xmax = Zero
    /\ mode = "unbound"
    /\ intervals = <<>>
    /\ out = <<>>
    /\ exit_code = 0 - 1
    /\ stderr = <<>>
    /\ raw \in Labels
    /\ esc = <<>>
    /\ back = <<>>

EscapeLabel ==
    /\ pc = "escape"
    /\ esc' = Escape(raw)
    /\ pc' = "escaped"
    /\ UNCHANGED <<rows, args, times, labels, xmin, xmax, mode, intervals, out,
                   exit_code, stderr, raw, back>>

ReadBack ==
    /\ pc = "escaped"
    /\ back' = Unescape(esc)
    /\ pc' = "read"
    /\ UNCHANGED <<rows, args, times, labels, xmin, xmax, mode, intervals, out,
                   exit_code, stderr, raw, esc>>

EscNext ==
    \/ EscapeLabel
    \/ ReadBack

EscSpec == EscInit /\ [][EscNext]_vars

----------------------------------------------------------------------------
(* write_textgrid_interval on its own: the function is called with any     *)
(* list of boundaries and any list of labels, of independent lengths, so   *)
(* that there may be fewer labels than boundaries, as many, or more.       *)
(* `times` holds the parameter `boundaries`, `labels` the parameter        *)
(* `labels`, `xmin` and `xmax` the parameters of those names.              *)

BoundaryLists ==
    UNION {[1..k -> {IntV(0 - 1), Float(RowWord[1])[1], IntV(2), NaN}] : k \in 0..MaxRows}

LabelLists ==
    UNION {[1..k -> {<<>>, RowNegative[2], RowWord[2], <<DQ, BS>>}] : k \in 0..MaxRows}

Ends == {IntV(d) : d \in (0 - 1)..MaxDuration} \cup {IntV(3)}

IvInit ==
    /\ rows = <<>>
    /\ args = [mode |-> "interval", duration |-> None, tail |-> IntV(1), time_col |-> 0, label_col |-> 1]
    /\ pc = "call"
    /\ times \in BoundaryLists
    /\ labels \in LabelLists
    /\ xmin = Zero
    /\ xmax \in Ends
    /\ mode = "interval"
    /\ intervals = <<>>
    /\ out = <<>>
    /\ exit_code = 0 - 1
    /\ stderr = <<>>
    /\ raw = <<>>
    /\ esc = <<>>
    /\ back = <<>>

\* write_textgrid_interval(boundaries, labels, xmin, xmax, tier_name, out_path)
CallWriteInterval ==
    /\ pc = "call"
    /\ intervals' = BuildIntervals(times, labels, xmin, xmax)
    /\ out' = <<IntervalFile(intervals', xmin, xmax, TierName)>>
    /\ pc' = "done"
    /\ UNCHANGED <<rows, args, times, labels, xmin, xmax, mode, exit_code, stderr>>
    /\ UNCHANGED escVars

IvNext == CallWriteInterval

IvSpec == IvInit /\ [][IvNext]_vars

----------------------------------------------------------------------------
(* Reference descriptions used by the properties below *)

\* the field of a row at a column, counted from 0, or from the end when the
\* column is negative: <<field>>, or <<>> when the row has no such field
Field(row, col) ==
    IF 0 <= col /\ col < Len(row) THEN <<row[col + 1]>>
    ELSE IF col < 0 /\ Len(row) + col >= 0 THEN <<row[Len(row) + col + 1]>>
    ELSE <<>>

\* indices of the rows that are non-empty, not comments, and carry a numeric time
ValidIdx ==
    {i \in 1..Len(rows) :
        /\ rows[i] # <<>>
        /\ ~IsComment(rows[i])
        /\ Field(rows[i], args.time_col) # <<>>
        /\ Float(Field(rows[i], args.time_col)[1]) # <<>>}

\* the valid rows as (time, label) entries, in file order: the k-th entry comes
\* from the valid row that has exactly k valid rows up to and including itself;
\* a row without the label field has the empty label
ValidEntries ==
    LET idx == ValidIdx IN
    [k \in 1..Cardinality(idx) |->
        LET i == CHOOSE i \in idx : Cardinality({j \in idx : j <= i}) = k
            row == rows[i]
        IN [t |-> Float(Field(row, args.time_col)[1])[1],
            label |-> IF Field(row, args.label_col) # <<>>
                      THEN Strip(Field(row, args.label_col)[1]) ELSE <<>>]]

\* the ways to place n entries at n distinct positions
Placements(n) == {f \in [1..n -> 1..n] : \A k \in 1..n : \A l \in 1..n : f[k] = f[l] => k = l}

Written == pc = "done" /\ out # <<>>
PointWritten == Written /\ out[1].class = "TextTier"
IntervalWritten == Written /\ out[1].class = "IntervalTier"

----------------------------------------------------------------------------
(* Properties *)

\* C1: in every interval-mode output the intervals are contiguous and cover
\* exactly [xmin, xmax]: there is a first interval starting at xmin, the last
\* one ends at xmax, and each interval starts where the previous one ends.
C1_IntervalsCoverTier ==
    IntervalWritten =>
        /\ Len(intervals) >= 1
        /\ Eq(intervals[1].start, xmin)
        /\ Eq(intervals[Len(intervals)].end, xmax)
        /\ \A i \in 2..Len(intervals) : Eq(intervals[i].start, intervals[i - 1].end)

\* C2: in every point-mode output the size header and the number of points
\* equal the number of valid parsed rows, the points are the parsed rows in
\* ascending time order (no point follows a point of greater time), and rows
\* of equal time keep their file order.
C2_PointsSortedStable ==
    PointWritten =>
        LET pts == out[1].entries
            v == ValidEntries
        IN  /\ out[1].size = Len(v)
            /\ Len(pts) = Len(v)
            /\ \A i \in 1..Len(pts) : pts[i].index = i
            /\ \A i \in 1..Len(pts) : \A j \in (i + 1)..Len(pts) :
                  ~Lt(pts[j].number, pts[i].number)
            /\ \E f \in Placements(Len(v)) :
                  /\ \A k \in 1..Len(v) :
                        /\ pts[f[k]].number = v[k].t
                        /\ pts[f[k]].mark = Escape(v[k].label)
                  /\ \A k \in 1..Len(v) : \A l \in (k + 1)..Len(v) :
                        Eq(v[k].t, v[l].t) => f[k] < f[l]

\* C3: once the bounds are computed, xmin is 0 and xmax is the configured
\* duration when one is given, otherwise tail added to a parsed time that no
\* parsed time exceeds (the greatest one); the written tier carries the same
\* bounds.
C3_TierBounds ==
    (pc \in {"bounds", "write"} \/ Written) =>
        /\ xmin = Zero
        /\ args.duration # None => xmax = args.duration[1]
        /\ args.duration = None =>
              \E k \in 1..Len(times) :
                  /\ \A j \in 1..Len(times) : ~Gt(times[j], times[k])
                  /\ xmax = Add(times[k], args.tail)
        /\ Written => out[1].xmin = xmin /\ out[1].xmax = xmax

C3_Witness ==
    /\ Written
    /\ args.duration = None
    /\ args.tail = IntV(1)
    /\ Len(times) = 3
    /\ Lt(times[1], times[2])
    /\ Lt(times[2], times[3])
    /\ times[3] = IntV(2)
    /\ out[1].xmin = Zero
    /\ out[1].xmax = IntV(3)

\* C4: when the parser returns no entries the run ends with status 1 after
\* one message on standard error, and the output file is never written.
C4_EmptyInputFails ==
    (pc \notin {"start", "raised"} /\ times = <<>>) =>
        /\ pc \in {"parsed", "done"}
        /\ out = <<>>
        /\ pc = "done" =>
              /\ exit_code = 1
              /\ stderr = <<"No valid time entries found in input.">>

C4_Witness ==
    /\ pc = "done"
    /\ exit_code = 1
    /\ out = <<>>
    /\ rows = <<RowComment, RowBlank, RowMalformed>>
    /\ args.time_col = 0

\* C5: escaping a label (backslashes doubled, then quotes prefixed by a
\* backslash) and reading it back recovers the label.
C5_EscapeRoundTrip == pc = "read" => back = raw

C5_Witness ==
    /\ pc = "read"
    /\ raw = <<DQ, BS, Ord("a"), DQ>>
    /\ esc = <<BS, DQ, BS, BS, Ord("a"), BS, DQ>>
    /\ back = raw

\* C6: with mode auto a point tier is written exactly when some parsed label
\* is non-empty, otherwise an interval tier; with mode point or interval the
\* configured kind is written whatever the labels are.
C6_ModeResolution ==
    Written =>
        /\ args.mode = "auto" =>
              /\ out[1].class = "TextTier" <=> \E k \in 1..Len(labels) : labels[k] # <<>>
              /\ out[1].class = "IntervalTier" <=> \A k \in 1..Len(labels) : labels[k] = <<>>
        /\ args.mode = "point" => out[1].class = "TextTier"
        /\ args.mode = "interval" => out[1].class = "IntervalTier"

C6_Witness ==
    /\ PointWritten
    /\ args.mode = "auto"
    /\ \E k \in 1..Len(labels) : labels[k] = <<>>
    /\ \E k \in 1..Len(labels) : labels[k] # <<>>

\* C7: parse_tsv returns, without raising an error, parallel lists holding
\* exactly the valid rows, in file order, with the empty label for a row
\* without the label column.
C7_ParseKeepsValidRows ==
    pc \in {"parsed", "raised"} =>
        /\ pc = "parsed"
        /\ LET v == ValidEntries IN
             /\ Len(times) = Len(v)
             /\ Len(labels) = Len(v)
             /\ \A k \in 1..Len(v) : times[k] = v[k].t /\ labels[k] = v[k].label
        /\ exit_code = 0 - 1
        /\ stderr = <<>>

\* C8: every tier handed to the serializer has xmin <= xmax.
C8_BoundsOrdered == Written => Le(out[1].xmin, out[1].xmax)

\* C9: every interval built in interval mode has start <= end.
C9_IntervalsOrdered ==
    IntervalWritten =>
        /\ \A i \in 1..Len(intervals) : Le(intervals[i].start, intervals[i].end)
        /\ \A i \in 1..Len(out[1].entries) :
              Le(out[1].entries[i].xmin, out[1].entries[i].xmax)

\* C10: whatever lists write_textgrid_interval is given, with no boundary
\* the single interval [xmin, xmax] has the empty label; otherwise the
\* interval before the first boundary, present when xmin < boundaries[0],
\* has the empty label, the interval from boundary i to boundary i+1 has
\* the label of entry i, or the empty label when i is beyond the end of
\* labels, and the trailing interval, present when boundaries[-1] < xmax,
\* has the last boundary's label if there are at least as many labels as
\* boundaries and the empty label otherwise; each label is written escaped.
C10_IntervalLabels ==
    IntervalWritten =>
        /\ Len(times) = 0 => intervals = <<Interval(xmin, xmax, <<>>)>>
        /\ Len(times) > 0 =>
            LET n == Len(times)
                pre == IF Lt(xmin, times[1]) THEN 1 ELSE 0
                post == IF Lt(times[n], xmax) THEN 1 ELSE 0
            IN  /\ Len(intervals) = pre + (n - 1) + post
                /\ pre = 1 => intervals[1] = Interval(xmin, times[1], <<>>)
                /\ \A i \in 1..(n - 1) :
                      intervals[pre + i] =
                          Interval(times[i], times[i + 1],
                                   IF i <= Len(labels) THEN labels[i] ELSE <<>>)
                /\ post = 1 =>
                      intervals[pre + n] =
                          Interval(times[n], xmax,
                                   IF Len(labels) >= n THEN labels[n] ELSE <<>>)
        /\ \A i \in 1..Len(intervals) :
              out[1].entries[i].text = Escape(intervals[i].label)

\* three boundaries and one label: the label is on the first interval between
\* boundaries, the second one is beyond the labels and the trailing interval
\* has fewer labels than boundaries
C10_Witness ==
    /\ IntervalWritten
    /\ Len(times) = 3
    /\ labels = << <<DQ, BS>> >>
    /\ Len(intervals) = 4
    /\ intervals[1].label = <<>>
    /\ intervals[2].label = <<DQ, BS>>
    /\ intervals[3].label = <<>>
    /\ intervals[4].label = <<>>
    /\ Eq(intervals[4].start, IntV(2))
    /\ Eq(intervals[4].end, IntV(3))
    /\ out[1].entries[2].text = <<BS, DQ, BS, BS>>

====
